---- MODULE Spec2Model ----
(***************************************************************************)
(* State-machine model of the gardener station controller                  *)
(* (src/gardener.go, src/unnamed/part_001).                                *)
(*                                                                         *)
(* Goroutines of the program and how they appear here:                     *)
(*   main            mainPc   : Init() device by device, go Start(),       *)
(*                              signal.Notify + go func, <-gardener.Done   *)
(*   go Start()      startPc  : Connect, the Sub loop, the mock branch     *)
(*   go func (sig)   sigPc    : <-signals, then gardener.Stop()            *)
(*   emulator loop   emuPc    : select on g.Done / ticker.C                *)
(*   device tickers  pollers  : the callbacks given to StartTicker         *)
(*   button events   handlers : the callbacks given to RegisterEventHandler*)
(*   bus deliveries  subs     : the handlers given to Messenger.Sub        *)
(*                                                                         *)
(* Sensor values are integers in units of 1/10000 (0.4200 is 4200).        *)
(***************************************************************************)
EXTENDS Integers, Sequences, FiniteSets, TLC

\* ------------------------------------------------------------------ bounds
MaxCalls   == 3   \* ticker and button callbacks invoked (all devices together)
MaxEmu     == 2   \* emulator ticks taken

\* ------------------------------------------------------- program constants
Delta == 200      \* v += 0.02, in units of 1/10000

Sensors    == {"soil", "env"}
Buttons    == {"on", "off"}
EventTypes == {"rising", "falling"}
Results    == {"ok", "err"}

\* the values the soil pin may have when vh400.New returns it
V0Set == {4200, 99970}
\* the values a successful g.soil.Get() may return
SoilReadings == {4200, 99970}
\* the outcomes of one env cycle: g.env.Get() fails, resp.JSON() fails, both succeed
EnvOutcomes == {"readerr", "jsonerr", "ok"}
\* payloads of inbound messages
Payloads == {"on", "off"}
\* topics on which the bus may deliver a message
InTopics == {"c/pump", "c/lcd", "soil", "env", "on", "off", "pump", "display", "x/none"}

VARIABLES
    mock,       \* config.Mock
    proc,       \* "running" | "panicked" | "killed" | "exited"
    mainPc,     \* position of main
    startPc,    \* position of the goroutine running Start()
    sigPc,      \* position of the signal goroutine
    emuPc,      \* position of the emulator goroutine
    emuStarted, \* number of emulator goroutines ever launched
    connected,  \* result of Messenger.Connect(): "no" | "ok" | "failed"
    built,      \* devices constructed by New(...), in construction order
    failed,     \* history: the device whose New(...) returned an error, or "none"
    devs,       \* names added to the DeviceManager, in Add order
    handlers,   \* buttons with a registered event handler
    pollers,    \* sensors whose ticker has been started
    subs,       \* subscriptions <<topic, handler>> made through Messenger.Sub
    pubs,       \* messages <<topic, payload>> passed to Messenger.Pub, in call order
    reads,      \* history: poller cycles <<sensor, outcome>>, in order
    events,     \* history: button events <<button, type>>, in delivery order
    soilPin,    \* soil.Pin value
    v0,         \* history: the initial soil.Pin value
    emuOk,      \* history: emulator ticks whose Pin.Get() succeeded
    emuErr,     \* history: emulator ticks whose Pin.Get() failed
    sigBuf,     \* number of signals buffered in the signals channel (capacity 1)
    stopCalls,  \* history: number of calls of Stop()
    atStop,     \* history: the activities that existed when Stop() was called
    observed,   \* the activities that received the value sent on Done
    lastMsg,    \* the last inbound message <<topic, payload>>
    lastCalls,  \* the handler invocations <<handler, payload>> it caused, in order
    lastBranch, \* the branch MsgHandler took for it ("none" when not invoked)
    lastRet     \* what MsgHandler returned for it ("none" when not invoked)

vars == <<mock, proc, mainPc, startPc, sigPc, emuPc, emuStarted, connected, built,
          failed, devs, handlers, pollers, subs, pubs, reads, events, soilPin, v0, emuOk,
          emuErr, sigBuf, stopCalls, atStop, observed, lastMsg,
          lastCalls, lastBranch, lastRet>>

lifeVars == <<proc, mainPc, startPc, sigPc, emuPc, emuStarted, connected>>
initVars == <<built, failed, devs, handlers, pollers>>
pubVars  == <<pubs, reads, events>>
emuVars  == <<soilPin, emuOk, emuErr>>
sigVars  == <<sigBuf, stopCalls, atStop, observed>>
inVars   == <<lastMsg, lastCalls, lastBranch, lastRet>>

\* -------------------------------------------------------------- formatting
Digit == <<"0", "1", "2", "3", "4", "5", "6", "7", "8", "9">>

RECURSIVE Itoa(_)
Itoa(n) == IF n < 10 THEN Digit[n + 1] ELSE Itoa(n \div 10) \o Digit[(n % 10) + 1]

\* v in 1/10000 rounded to hundredths (the model avoids exact .5 ties)
Hundredths(v) == (v + 50) \div 100

\* fmt.Sprintf("%5.2f", value): two decimals, left-padded with blanks to width 5
Fmt52(v) ==
    LET h == Hundredths(v)
        s == Itoa(h \div 100) \o "." \o Digit[((h % 100) \div 10) + 1]
                              \o Digit[(h % 10) + 1]
    IN  IF Len(s) < 5 THEN " " \o s ELSE s

\* resp.JSON() of a successful env reading: one opaque document
EnvJSON == "{temperature,humidity,pressure}"

\* ------------------------------------------------------------ initial state
\* The process after flag parsing, with gardener.Init() about to construct the
\* first device (Done already made, the registry empty).
Init ==
    /\ mock \in BOOLEAN
    /\ v0 = 0
    /\ soilPin = 0
    /\ proc = "running"
    /\ mainPc = "initOn"
    /\ startPc = "none"
    /\ sigPc = "none"
    /\ emuPc = "none"
    /\ emuStarted = 0
    /\ connected = "no"
    /\ built = <<>>
    /\ failed = "none"
    /\ devs = <<>>
    /\ handlers = {}
    /\ pollers = {}
    /\ subs = {}
    /\ pubs = <<>>
    /\ reads = <<>>
    /\ events = <<>>
    /\ emuOk = 0
    /\ emuErr = 0
    /\ sigBuf = 0
    /\ stopCalls = 0
    /\ atStop = {}
    /\ observed = {}
    /\ lastMsg = <<>>
    /\ lastCalls = {}
    /\ lastBranch = "none"
    /\ lastRet = "none"

Running == proc = "running"

\* New(...) of device d returned an error: panic(err); nothing recovers it, so
\* the process dies inside Init()
Panic(d) ==
    /\ proc' = "panicked"
    /\ failed' = d
    /\ UNCHANGED <<mainPc, startPc, sigPc, emuPc, emuStarted, connected>>
    /\ UNCHANGED <<built, devs, handlers, pollers>>

\* the init function returned; main goes on to the next statement
Advance(next) ==
    /\ mainPc' = next
    /\ UNCHANGED <<proc, failed, startPc, sigPc, emuPc, emuStarted, connected>>

\* ------------------------------------------------------------------- Init()
\* initButtons, first half: button.New("on"), Add, RegisterEventHandler
InitButtonOn(r) ==
    /\ Running /\ mainPc = "initOn"
    /\ IF r = "err"
       THEN Panic("on")
       ELSE /\ Advance("initOff")
            /\ built' = Append(built, "on")
            /\ devs' = Append(devs, "on")
            /\ handlers' = handlers \cup {"on"}
            /\ UNCHANGED pollers
    /\ UNCHANGED <<mock, v0, subs, pubVars, emuVars, sigVars, inVars>>

\* initButtons, second half: button.New("off"), Add, RegisterEventHandler
InitButtonOff(r) ==
    /\ Running /\ mainPc = "initOff"
    /\ IF r = "err"
       THEN Panic("off")
       ELSE /\ Advance("initPump")
            /\ built' = Append(built, "off")
            /\ devs' = Append(devs, "off")
            /\ handlers' = handlers \cup {"off"}
            /\ UNCHANGED pollers
    /\ UNCHANGED <<mock, v0, subs, pubVars, emuVars, sigVars, inVars>>

\* mutant of InitPump: the relay's handler is subscribed under the bare name
\* "pump" instead of "c/pump"
InitPumpBareTopic(r) ==
    /\ Running /\ mainPc = "initPump"
    /\ IF r = "err"
       THEN Panic("pump") /\ UNCHANGED subs
       ELSE /\ Advance("initEnv")
            /\ built' = Append(built, "pump")
            /\ subs' = subs \cup {<<"pump", "pump.HandleMsg">>}
            /\ UNCHANGED <<devs, handlers, pollers>>
    /\ UNCHANGED <<mock, v0, pubVars, emuVars, sigVars, inVars>>

\* initPump: relay.New("pump"), then Sub("c/pump", g.pump.HandleMsg); no Add
InitPump(r) ==
    /\ Running /\ mainPc = "initPump"
    /\ IF r = "err"
       THEN Panic("pump") /\ UNCHANGED subs
       ELSE /\ Advance("initEnv")
            /\ built' = Append(built, "pump")
            /\ subs' = subs \cup {<<"c/pump", "pump.HandleMsg">>}
            /\ UNCHANGED <<devs, handlers, pollers>>
    /\ UNCHANGED <<mock, v0, pubVars, emuVars, sigVars, inVars>>

\* mutant of InitEnv: initEnv returns without g.env.StartTicker (the ticker
\* is left for later)
InitEnvNoTicker(r) ==
    /\ Running /\ mainPc = "initEnv"
    /\ IF r = "err"
       THEN Panic("env")
       ELSE /\ Advance("initDisplay")
            /\ built' = Append(built, "env")
            /\ devs' = Append(devs, "env")
            /\ UNCHANGED <<handlers, pollers>>
    /\ UNCHANGED <<mock, v0, subs, pubVars, emuVars, sigVars, inVars>>

\* mutant of InitEnv: the error of bme280.New is recorded but does not panic;
\* Init() goes on without the device
InitEnvNoPanic(r) ==
    /\ Running /\ mainPc = "initEnv"
    /\ IF r = "err"
       THEN /\ mainPc' = "initDisplay"
            /\ failed' = "env"
            /\ UNCHANGED <<proc, startPc, sigPc, emuPc, emuStarted, connected>>
            /\ UNCHANGED <<built, devs, handlers, pollers>>
       ELSE /\ Advance("initDisplay")
            /\ built' = Append(built, "env")
            /\ devs' = Append(devs, "env")
            /\ pollers' = pollers \cup {"env"}
            /\ UNCHANGED handlers
    /\ UNCHANGED <<mock, v0, subs, pubVars, emuVars, sigVars, inVars>>

\* initEnv: bme280.New("env"), Add, StartTicker
InitEnv(r) ==
    /\ Running /\ mainPc = "initEnv"
    /\ IF r = "err"
       THEN Panic("env")
       ELSE /\ Advance("initDisplay")
            /\ built' = Append(built, "env")
            /\ devs' = Append(devs, "env")
            /\ pollers' = pollers \cup {"env"}
            /\ UNCHANGED handlers
    /\ UNCHANGED <<mock, v0, subs, pubVars, emuVars, sigVars, inVars>>

\* initDisplay: oled.New("c/lcd"), Clear, Add (the device's name is "c/lcd")
InitDisplay(r) ==
    /\ Running /\ mainPc = "initDisplay"
    /\ IF r = "err"
       THEN Panic("display")
       ELSE /\ Advance("initSoil")
            /\ built' = Append(built, "display")
            /\ devs' = Append(devs, "c/lcd")
            /\ UNCHANGED <<handlers, pollers>>
    /\ UNCHANGED <<mock, v0, subs, pubVars, emuVars, sigVars, inVars>>

\* mutant of InitSoil: the sensor is not added to the DeviceManager (as in
\* initPump)
InitSoilNoAdd(r, v) ==
    /\ Running /\ mainPc = "initSoil"
    /\ IF r = "err"
       THEN Panic("soil") /\ UNCHANGED <<v0, soilPin>>
       ELSE /\ Advance("goStart")
            /\ built' = Append(built, "soil")
            /\ pollers' = pollers \cup {"soil"}
            /\ v0' = v
            /\ soilPin' = v
            /\ UNCHANGED <<devs, handlers>>
    /\ UNCHANGED <<mock, subs, pubVars, emuOk, emuErr, sigVars, inVars>>

\* InitSoil: vh400.New("soil") (its pin starts at value v), Add, StartTicker
InitSoil(r, v) ==
    /\ Running /\ mainPc = "initSoil"
    /\ IF r = "err"
       THEN Panic("soil") /\ UNCHANGED <<v0, soilPin>>
       ELSE /\ Advance("goStart")
            /\ built' = Append(built, "soil")
            /\ devs' = Append(devs, "soil")
            /\ pollers' = pollers \cup {"soil"}
            /\ v0' = v
            /\ soilPin' = v
            /\ UNCHANGED handlers
    /\ UNCHANGED <<mock, subs, pubVars, emuOk, emuErr, sigVars, inVars>>

\* --------------------------------------------------------------------- main
\* go gardener.Start()
MainGoStart ==
    /\ Running /\ mainPc = "goStart"
    /\ mainPc' = "notify"
    /\ startPc' = "connect"
    /\ UNCHANGED <<proc, sigPc, emuPc, emuStarted, connected>>
    /\ UNCHANGED <<mock, v0, initVars, subs, pubVars, emuVars, sigVars, inVars>>

\* signals := make(chan os.Signal, 1); signal.Notify(...); go func() {...}()
MainNotify ==
    /\ Running /\ mainPc = "notify"
    /\ mainPc' = "waitDone"
    /\ sigPc' = "waiting"
    /\ UNCHANGED <<proc, startPc, emuPc, emuStarted, connected>>
    /\ UNCHANGED <<mock, v0, initVars, subs, pubVars, emuVars, sigVars, inVars>>

\* slog.Info("gardener stopped"); main returns and the process ends
MainReturn ==
    /\ Running /\ mainPc = "stopped"
    /\ proc' = "exited"
    /\ UNCHANGED <<mainPc, startPc, sigPc, emuPc, emuStarted, connected>>
    /\ UNCHANGED <<mock, v0, initVars, subs, pubVars, emuVars, sigVars, inVars>>

\* ------------------------------------------------------------------ Start()
\* mutant of StartConnect: the error of Connect() is logged but Start() does
\* not return
StartConnectNoReturn(r) ==
    /\ Running /\ startPc = "connect"
    /\ connected' = IF r = "err" THEN "failed" ELSE "ok"
    /\ startPc' = "subscribe"
    /\ UNCHANGED <<proc, mainPc, sigPc, emuPc, emuStarted>>
    /\ UNCHANGED <<mock, v0, initVars, subs, pubVars, emuVars, sigVars, inVars>>

\* err := g.Messenger.Connect(); on error: log and return
StartConnect(r) ==
    /\ Running /\ startPc = "connect"
    /\ IF r = "err"
       THEN connected' = "failed" /\ startPc' = "failed"
       ELSE connected' = "ok" /\ startPc' = "subscribe"
    /\ UNCHANGED <<proc, mainPc, sigPc, emuPc, emuStarted>>
    /\ UNCHANGED <<mock, v0, initVars, subs, pubVars, emuVars, sigVars, inVars>>

\* topics := []string{...} of Start()
StartTopics == {"soil", "env", "on", "off", "pump", "display"}

Range(q) == {q[i] : i \in 1..Len(q)}

\* DeviceManager.GetDevice(name): the device registered under name, if any
GetDevice(name) == IF name \in Range(devs) THEN name ELSE "nil"

\* g.emulator(soil): time.NewTicker, then go func() { for { select ... } }()
Emulator ==
    /\ emuPc' = "select"
    /\ emuStarted' = emuStarted + 1

\* the rest of Start(): g.Sub(topic, g.MsgHandler) for each topic, then, in
\* mock mode, GetDevice("soil"), the type assertion and g.emulator(soil)
StartSubscribe ==
    /\ Running /\ startPc = "subscribe"
    /\ subs' = subs \cup {<<t, "MsgHandler">> : t \in StartTopics}
    /\ startPc' = "done"
    /\ IF mock
       THEN IF GetDevice("soil") = "soil"
            THEN Emulator /\ UNCHANGED proc
            ELSE proc' = "panicked" /\ UNCHANGED <<emuPc, emuStarted>>
       ELSE UNCHANGED <<proc, emuPc, emuStarted>>
    /\ UNCHANGED <<mainPc, sigPc, connected>>
    /\ UNCHANGED <<mock, v0, initVars, pubVars, emuVars, sigVars, inVars>>

\* ------------------------------------------------------- signals and Stop()
\* the activities other than the signal goroutine that exist right now
Activities ==
    (IF mainPc \in {"waitDone", "stopped"} THEN {"main"} ELSE {})
      \cup pollers
      \cup (IF emuPc = "select" THEN {"emulator"} ELSE {})

\* The OS delivers SIGINT or SIGTERM.  Before signal.Notify the default
\* disposition ends the process; afterwards the runtime does a non-blocking
\* send on the channel of capacity 1, dropping the signal when it is full.
Signal ==
    /\ Running
    /\ IF sigPc = "none"
       THEN proc' = "killed" /\ UNCHANGED sigBuf
       ELSE /\ sigBuf' = IF sigBuf = 0 THEN 1 ELSE sigBuf
            /\ UNCHANGED proc
    /\ UNCHANGED <<mainPc, startPc, sigPc, emuPc, emuStarted, connected>>
    /\ UNCHANGED <<stopCalls, atStop, observed>>
    /\ UNCHANGED <<mock, v0, initVars, subs, pubVars, emuVars, inVars>>

\* sig := <-signals; slog.Info(...); gardener.Stop() is entered
SigRecv ==
    /\ Running /\ sigPc = "waiting" /\ sigBuf > 0
    /\ sigBuf' = sigBuf - 1
    /\ sigPc' = "sending"
    /\ stopCalls' = stopCalls + 1
    /\ atStop' = Activities
    /\ UNCHANGED <<proc, mainPc, startPc, emuPc, emuStarted, connected>>
    /\ UNCHANGED observed
    /\ UNCHANGED <<mock, v0, initVars, subs, pubVars, emuVars, inVars>>

\* the goroutines blocked in a receive on g.Done
Receivers ==
    (IF mainPc = "waitDone" THEN {"main"} ELSE {})
      \cup (IF emuPc = "select" THEN {"emulator"} ELSE {})

\* mutant of Stop: the send is made non-blocking (select with a default
\* branch) and takes the default: Stop() returns with nothing delivered
StopNonBlocking(a) ==
    /\ Running /\ sigPc = "sending"
    /\ a \in Receivers
    /\ sigPc' = "returned"
    /\ UNCHANGED <<observed, mainPc, emuPc>>
    /\ UNCHANGED <<proc, startPc, emuStarted, connected>>
    /\ UNCHANGED <<sigBuf, stopCalls, atStop>>
    /\ UNCHANGED <<mock, v0, initVars, subs, pubVars, emuVars, inVars>>

\* mutant of Stop: the emulator's case <-g.Done leaves the select but not the
\* for loop (break in place of return), so the loop goes on
StopEmuBreak(a) ==
    /\ Running /\ sigPc = "sending"
    /\ a \in Receivers
    /\ sigPc' = "returned"
    /\ observed' = observed \cup {a}
    /\ IF a = "main"
       THEN mainPc' = "stopped" /\ UNCHANGED emuPc
       ELSE UNCHANGED <<emuPc, mainPc>>
    /\ UNCHANGED <<proc, startPc, emuStarted, connected>>
    /\ UNCHANGED <<sigBuf, stopCalls, atStop>>
    /\ UNCHANGED <<mock, v0, initVars, subs, pubVars, emuVars, inVars>>

\* Stop(): g.Done <- true.  Done is unbuffered: the send completes by handing
\* the value to exactly one goroutine blocked in a receive, and Stop() returns.
\* main goes on to its last statement; the emulator goroutine returns.
Stop(a) ==
    /\ Running /\ sigPc = "sending"
    /\ a \in Receivers
    /\ sigPc' = "returned"
    /\ observed' = observed \cup {a}
    /\ IF a = "main"
       THEN mainPc' = "stopped" /\ UNCHANGED emuPc
       ELSE emuPc' = "exited" /\ UNCHANGED mainPc
    /\ UNCHANGED <<proc, startPc, emuStarted, connected>>
    /\ UNCHANGED <<sigBuf, stopCalls, atStop>>
    /\ UNCHANGED <<mock, v0, initVars, subs, pubVars, emuVars, inVars>>

\* ----------------------------------------------------------------- emulator
\* mutant of EmuTick: the error branch lacks its continue, so a failed read
\* still adds the increment and writes the pin
EmuTickNoContinue(r) ==
    /\ Running /\ emuPc = "select"
    /\ emuOk + emuErr < MaxEmu
    /\ soilPin' = soilPin + Delta
    /\ IF r = "err"
       THEN emuErr' = emuErr + 1 /\ UNCHANGED emuOk
       ELSE emuOk' = emuOk + 1 /\ UNCHANGED emuErr
    /\ UNCHANGED <<mock, v0, lifeVars, initVars, subs, pubVars, sigVars, inVars>>

\* case <-ticker.C: v, err := soil.Pin.Get(); on error log and continue;
\* otherwise v += 0.02; soil.Pin.Set(v)
EmuTick(r) ==
    /\ Running /\ emuPc = "select"
    /\ emuOk + emuErr < MaxEmu
    /\ IF r = "err"
       THEN emuErr' = emuErr + 1 /\ UNCHANGED <<soilPin, emuOk>>
       ELSE /\ soilPin' = soilPin + Delta
            /\ emuOk' = emuOk + 1
            /\ UNCHANGED emuErr
    /\ UNCHANGED <<mock, v0, lifeVars, initVars, subs, pubVars, sigVars, inVars>>

\* ------------------------------------------------------------------ pollers
\* mutant of SoilTick: the error branch lacks its return, so a failed read
\* still publishes (the zero value)
SoilTickNoReturn(r, x) ==
    /\ Running /\ "soil" \in pollers
    /\ Len(reads) + Len(events) < MaxCalls
    /\ IF r = "err"
       THEN /\ reads' = Append(reads, <<"soil", "readerr", 0>>)
            /\ pubs' = Append(pubs, <<"d/soil", Fmt52(0)>>)
       ELSE /\ reads' = Append(reads, <<"soil", "ok", x>>)
            /\ pubs' = Append(pubs, <<"d/soil", Fmt52(x)>>)
    /\ UNCHANGED <<mock, v0, lifeVars, initVars, subs, events, emuVars, sigVars, inVars>>

\* the soil ticker callback: g.soil.Get(); on error log and return; otherwise
\* Pub("d/soil", Sprintf("%5.2f", value))
SoilTick(r, x) ==
    /\ Running /\ "soil" \in pollers
    /\ Len(reads) + Len(events) < MaxCalls
    /\ IF r = "err"
       THEN /\ reads' = Append(reads, <<"soil", "readerr", 0>>)
            /\ UNCHANGED pubs
       ELSE /\ reads' = Append(reads, <<"soil", "ok", x>>)
            /\ pubs' = Append(pubs, <<"d/soil", Fmt52(x)>>)
    /\ UNCHANGED <<mock, v0, lifeVars, initVars, subs, events, emuVars, sigVars, inVars>>

\* the env ticker callback: g.env.Get(); resp.JSON(); Pub("d/env", jbuf);
\* either error is logged and ends the cycle
EnvTick(o) ==
    /\ Running /\ "env" \in pollers
    /\ Len(reads) + Len(events) < MaxCalls
    /\ reads' = Append(reads, <<"env", o, 0>>)
    /\ pubs' = IF o = "ok" THEN Append(pubs, <<"d/env", EnvJSON>>) ELSE pubs
    /\ UNCHANGED <<mock, v0, lifeVars, initVars, subs, events, emuVars, sigVars, inVars>>

\* ------------------------------------------------------------------ buttons
ButtonTopic(b)   == IF b = "on" THEN "d/on" ELSE "d/off"
ButtonPayload(b) == IF b = "on" THEN "on" ELSE "off"

\* mutant of ButtonEvent: the handler lacks its switch on evt.Type and
\* publishes on every event
ButtonEventAnyType(b, t) ==
    /\ Running /\ b \in handlers
    /\ Len(reads) + Len(events) < MaxCalls
    /\ events' = Append(events, <<b, t>>)
    /\ pubs' = Append(pubs, <<ButtonTopic(b), ButtonPayload(b)>>)
    /\ UNCHANGED <<mock, v0, lifeVars, initVars, subs, reads, emuVars, sigVars, inVars>>

\* the event handler registered for button b, called with an event of type t:
\* a rising edge publishes, any other event type does nothing
ButtonEvent(b, t) ==
    /\ Running /\ b \in handlers
    /\ Len(reads) + Len(events) < MaxCalls
    /\ events' = Append(events, <<b, t>>)
    /\ pubs' = IF t = "rising"
               THEN Append(pubs, <<ButtonTopic(b), ButtonPayload(b)>>)
               ELSE pubs
    /\ UNCHANGED <<mock, v0, lifeVars, initVars, subs, reads, emuVars, sigVars, inVars>>

\* ----------------------------------------------------------- command router
\* switch msg.Topic of MsgHandler
MsgHandlerBranch(topic) ==
    CASE topic = "soil" -> "soil"
      [] topic = "env" -> "env"
      [] topic \in {"on", "off"} -> "button"
      [] OTHER -> "unknown"

\* The bus delivers message <<t, p>>: every handler subscribed to t is called
\* with it.  g.pump.HandleMsg gets the payload as it arrived; MsgHandler logs,
\* prints and returns nil whatever branch it takes.
Deliver(t, p) ==
    /\ Running /\ connected = "ok"
    /\ lastMsg' = <<t, p>>
    /\ lastCalls' = {<<s[2], p>> : s \in {u \in subs : u[1] = t}}
    /\ lastBranch' = IF <<t, "MsgHandler">> \in subs THEN MsgHandlerBranch(t) ELSE "none"
    /\ lastRet' = IF <<t, "MsgHandler">> \in subs THEN "nil" ELSE "none"
    /\ UNCHANGED <<mock, v0, lifeVars, initVars, subs, pubVars, emuVars, sigVars>>

\* ------------------------------------------------------------ specification
\* main, Init(), Start(), the signal goroutine and Stop()
Lifecycle ==
    \/ \E r \in Results : InitButtonOn(r)
    \/ \E r \in Results : InitButtonOff(r)
    \/ \E r \in Results : InitPump(r)
    \/ \E r \in Results : InitEnv(r)
    \/ \E r \in Results : InitDisplay(r)
    \/ \E r \in Results, v \in V0Set : InitSoil(r, v)
    \/ MainGoStart
    \/ MainNotify
    \/ MainReturn
    \/ \E r \in Results : StartConnect(r)
    \/ StartSubscribe
    \/ Signal
    \/ SigRecv
    \/ \E a \in {"main", "emulator"} : Stop(a)

\* the callbacks the devices run: tickers, button events, the emulator's tick
Callbacks ==
    \/ \E r \in Results : EmuTick(r)
    \/ \E r \in Results, x \in SoilReadings : SoilTick(r, x)
    \/ \E o \in EnvOutcomes : EnvTick(o)
    \/ \E b \in Buttons, t \in EventTypes : ButtonEvent(b, t)

\* the handlers the bus runs
Routing ==
    \E t \in InTopics, p \in Payloads : Deliver(t, p)

Next == Lifecycle \/ Callbacks \/ Routing

Spec == Init /\ [][Next]_vars

\* Deliver reads proc, connected and subs and writes only the record of the
\* last inbound message; the callbacks read and write none of these.  The two
\* halves are therefore also checked apart, each with the whole lifecycle.
DeviceNext == Lifecycle \/ Callbacks
DeviceSpec == Init /\ [][DeviceNext]_vars

RouterNext == Lifecycle \/ Routing
RouterSpec == Init /\ [][RouterNext]_vars

\* The Go scheduler runs every runnable goroutine eventually, Connect() returns,
\* and a send on Done completes once a receiver is blocked on it.  Nothing is
\* assumed about signals, timer ticks or button events arriving.
ProgramStep ==
    \/ \E r \in Results : InitButtonOn(r)
    \/ \E r \in Results : InitButtonOff(r)
    \/ \E r \in Results : InitPump(r)
    \/ \E r \in Results : InitEnv(r)
    \/ \E r \in Results : InitDisplay(r)
    \/ \E r \in Results, v \in V0Set : InitSoil(r, v)
    \/ MainGoStart
    \/ MainNotify
    \/ \E r \in Results : StartConnect(r)
    \/ StartSubscribe
    \/ SigRecv

Fairness ==
    /\ WF_vars(ProgramStep)
    /\ WF_vars(\E a \in {"main", "emulator"} : Stop(a))
    /\ WF_vars(MainReturn)

DeviceFairSpec == DeviceSpec /\ Fairness

\* The goroutines that touch Done: main, the signal goroutine and the emulator
\* loop (its ticks included).  The ticker and button callbacks read proc and
\* write only pubs, reads and events, so they are left out here.
ShutdownNext == Lifecycle \/ \E r \in Results : EmuTick(r)
ShutdownFairSpec == Init /\ [][ShutdownNext]_vars /\ Fairness

\* =================================================================== claims
\* the activities the shutdown signal is meant for
AllActivities == {"main", "emulator", "soil", "env"}

\* C1: after a call of Stop(), every activity that existed when it was called
\* (the pollers, the simulation loop, main's wait on Done) eventually
\* observes the shutdown signal.
C1_StopIsBroadcast ==
    \A a \in AllActivities : (a \in atStop) ~> (a \in observed)

IsPollerMsg(m) == m[1] \in {"d/soil", "d/env"}

\* C2: once Stop() has returned and while the process is running, no poller
\* starts another read-and-publish cycle and nothing more is published on
\* d/soil or d/env.
C2_NoCycleAfterStop ==
    [][(sigPc = "returned" /\ Running)
         => (reads' = reads
             /\ SelectSeq(pubs', IsPollerMsg) = SelectSeq(pubs, IsPollerMsg))]_vars

\* C3: whatever the number of termination signals, the process has exited
\* only if Stop() was called exactly once and every activity that was running
\* has observed the shutdown signal.
C3_ExitAfterAllObserved ==
    proc = "exited" => (stopCalls = 1 /\ atStop \subseteq observed)

\* C4: when Connect() has failed, Start() has registered no subscription and
\* started no simulation loop, and no poller cycle or button dispatch runs
\* any more (no partial operation).
C4_ConnectFailureAborts ==
    [][(connected = "failed")
         => (/\ \A u \in subs : u[2] # "MsgHandler"
             /\ emuStarted = 0
             /\ reads' = reads
             /\ events' = events
             /\ pubs' = pubs)]_vars

\* the topics of the messages the poller cycles in history h had to publish
RECURSIVE PollerTopics(_)
PollerTopics(h) ==
    IF h = <<>> THEN <<>>
    ELSE LET r == Head(h)
         IN  (IF r[2] = "ok"
              THEN << (IF r[1] = "soil" THEN "d/soil" ELSE "d/env") >>
              ELSE <<>>) \o PollerTopics(Tail(h))

TopicsOf(q) == [i \in 1..Len(q) |-> q[i][1]]

\* C5: over every sequence of poller ticks, the messages published on d/soil
\* and d/env are exactly one per successful cycle, on that sensor's topic and
\* in cycle order (a cycle whose read or serialization failed publishes
\* nothing), and a sensor that has ticked, failed or not, still has its ticker.
C5_PollerCycles ==
    /\ TopicsOf(SelectSeq(pubs, IsPollerMsg)) = PollerTopics(reads)
    /\ \A i \in 1..Len(reads) : reads[i][1] \in pollers

\* C5 witness: a soil cycle whose read failed and an env cycle whose
\* serialization failed, followed by a soil cycle that succeeded and published.
C5_Witness ==
    /\ Len(reads) = 3
    /\ reads[1] = <<"soil", "readerr", 0>>
    /\ reads[2] = <<"env", "jsonerr", 0>>
    /\ reads[3][1] = "soil" /\ reads[3][2] = "ok"
    /\ Len(pubs) = 1 /\ pubs[1][1] = "d/soil"

IsButtonMsg(m) == m[1] \in {"d/on", "d/off"}

\* the messages the button events in history h had to publish
RECURSIVE ButtonMsgs(_)
ButtonMsgs(h) ==
    IF h = <<>> THEN <<>>
    ELSE LET e == Head(h)
         IN  (IF e[2] = "rising"
              THEN << (IF e[1] = "on" THEN <<"d/on", "on">> ELSE <<"d/off", "off">>) >>
              ELSE <<>>) \o ButtonMsgs(Tail(h))

\* C6: over every sequence of button events, the messages published on d/on
\* and d/off are exactly one per rising edge, in delivery order, d/on "on"
\* for the on button and d/off "off" for the off button; other events
\* publish nothing.
C6_OneMessagePerEdge ==
    SelectSeq(pubs, IsButtonMsg) = ButtonMsgs(events)

\* C6 witness: an event of on that is no rising edge, then a rising edge of
\* off and a rising edge of on, the two edges published in that order.
C6_Witness ==
    /\ events = << <<"on", "falling">>, <<"off", "rising">>, <<"on", "rising">> >>
    /\ pubs = << <<"d/off", "off">>, <<"d/on", "on">> >>

\* the inbound topics of the topic table
RoutedTopics == {"c/pump", "c/lcd"}
\* the handlers that drive an actuator
ActuatorHandlers == {"pump.HandleMsg", "display.HandleMsg"}

\* C7: for the last inbound message, a topic without a route caused no
\* actuator invocation and no error went back to the bus, and a message on
\* c/pump invoked the pump relay's handler with the payload as it arrived and
\* no other handler.
C7_RouterDispatch ==
    lastMsg # <<>> =>
        /\ lastMsg[1] \notin RoutedTopics =>
              /\ \A c \in lastCalls : c[1] \notin ActuatorHandlers
              /\ lastRet \in {"none", "nil"}
        /\ lastMsg[1] = "c/pump" =>
              lastCalls = {<<"pump.HandleMsg", lastMsg[2]>>}

\* C7 witness: a c/pump message with payload "off" reached the pump handler.
C7_Witness ==
    /\ lastMsg = <<"c/pump", "off">>
    /\ lastCalls = {<<"pump.HandleMsg", "off">>}

\* C8: after Init() and a successful Start(), a message that arrives on c/lcd
\* is forwarded to the display device.
C8_LcdForwarded ==
    [][(startPc = "done" /\ lastMsg' # lastMsg /\ lastMsg'[1] = "c/lcd")
         => (<<"display.HandleMsg", lastMsg'[2]>> \in lastCalls')]_vars

\* Init() constructs the devices in this order, at these positions of main
InitOrder == <<"on", "off", "pump", "env", "display", "soil">>
InitPcs == <<"initOn", "initOff", "initPump", "initEnv", "initDisplay", "initSoil">>

\* C9: when New(...) of a device has failed, the process has died inside
\* Init() at that device: exactly the devices before it were constructed,
\* only their dispatchers, subscription and pollers were started, and Start()
\* was never invoked.
C9_ConstructionFailureIsFatal ==
    failed # "none" =>
        \E k \in 1..Len(InitOrder) :
            /\ failed = InitOrder[k]
            /\ proc = "panicked"
            /\ mainPc = InitPcs[k]
            /\ built = SubSeq(InitOrder, 1, k - 1)
            /\ handlers \cup pollers \subseteq Range(built)
            /\ (subs # {} => "pump" \in Range(built))
            /\ startPc = "none"
            /\ emuStarted = 0

\* C9 witness: bme280.New failed after the buttons and the pump came up.
C9_Witness ==
    /\ failed = "env"
    /\ built = <<"on", "off", "pump">>
    /\ proc = "panicked"

\* C10: the soil pin's value is its initial value plus 0.02 for every
\* simulation tick whose read succeeded (a tick whose read failed changes
\* nothing), and after a failed tick the loop is still running unless it has
\* since received the shutdown signal.
C10_EmulatorDrift ==
    /\ soilPin = v0 + emuOk * 200
    /\ (emuErr > 0 /\ "emulator" \notin observed) => emuPc = "select"

\* C10 witness: mock mode, one tick whose read failed and one that succeeded.
C10_Witness ==
    /\ mock
    /\ emuErr = 1 /\ emuOk = 1
    /\ soilPin = v0 + 200

\* C11: at most one simulation loop is ever launched, and once the loop has
\* received the shutdown signal it has exited and the synthetic value is
\* neither read nor written again.
C11_OneEmulatorUntilShutdown ==
    [][/\ emuStarted' <= 1
       /\ ("emulator" \in observed)
            => (emuPc = "exited" /\ emuPc' = "exited"
                /\ UNCHANGED <<soilPin, emuOk, emuErr>>)]_vars

\* C11 witness: the one loop ticked, then received the shutdown signal and
\* exited, with a tick still allowed by the bound.
C11_Witness ==
    /\ emuStarted = 1
    /\ emuOk = 1 /\ emuErr = 0
    /\ "emulator" \in observed
    /\ emuPc = "exited"
    /\ Running

\* C12: at every moment the devices constructed so far are an initial part of
\* the order on, off, pump, env, display, soil, and what belongs to each of
\* them is already started: the event handlers of the buttons built, the
\* c/pump subscription of the pump, the tickers of the sensors built.
C12_InitOrder ==
    /\ \E k \in 0..Len(InitOrder) : built = SubSeq(InitOrder, 1, k)
    /\ handlers = Buttons \cap Range(built)
    /\ pollers = Sensors \cap Range(built)
    /\ (<<"c/pump", "pump.HandleMsg">> \in subs) <=> ("pump" \in Range(built))

\* C12 witness: Init() is between initEnv and initDisplay: the buttons, the
\* pump and env are up with their handlers, subscription and ticker, and
\* neither the display nor soil exists.
C12_Witness ==
    /\ mainPc = "initDisplay"
    /\ built = <<"on", "off", "pump", "env">>
    /\ handlers = {"on", "off"}
    /\ pollers = {"env"}
    /\ subs = {<<"c/pump", "pump.HandleMsg">>}

\* C13 (as claimed): every subscription, the one on c/pump included, exists
\* only once Connect() has succeeded.
C13_AllSubsAfterConnect ==
    subs # {} => connected = "ok"

\* C13 (amended): every subscription made by Start(), that is every
\* subscription of MsgHandler, exists only once Connect() has succeeded; the
\* c/pump subscription is the only other one and exists from initPump on,
\* before Connect() is attempted.
C13_StartSubsAfterConnect ==
    /\ \A u \in subs :
          \/ u[2] = "MsgHandler" /\ connected = "ok"
          \/ u = <<"c/pump", "pump.HandleMsg">>
    /\ connected = "no" /\ "pump" \in Range(built)
          => subs = {<<"c/pump", "pump.HandleMsg">>}

\* C13 witness: Connect() succeeded and Start() has subscribed MsgHandler to
\* its six topics, next to the c/pump subscription of initPump.
C13_Witness ==
    /\ connected = "ok"
    /\ startPc = "done"
    /\ Cardinality(subs) = 7
    /\ <<"display", "MsgHandler">> \in subs

\* C14: in mock mode the simulation loop is started in every run in which
\* Init() completes, whatever the outcome of Connect(): at the latest when
\* Start() has returned, with or without a connection, the loop exists.
C14_EmulatorStartedWithInit ==
    (mock /\ startPc \in {"done", "failed"}) => emuStarted = 1

\* C15: Stop() has returned only if exactly one receiver took the value from
\* Done (it does not wait for the other activities), and a call of Stop()
\* always returns.
C15_StopReturnsAfterHandOff ==
    /\ [](sigPc = "returned" => Cardinality(observed) = 1)
    /\ (sigPc = "sending") ~> (sigPc = "returned")

\* C15 witness: Stop() has returned after handing the value to the emulator
\* loop, while main and both pollers, which existed at the call, have not
\* observed anything.
C15_Witness ==
    /\ sigPc = "returned"
    /\ observed = {"emulator"}
    /\ atStop = {"main", "emulator", "soil", "env"}
    /\ Running

\* C16: once a termination signal has been delivered to the signals channel,
\* the process eventually exits, in non-mock mode and in mock mode with the
\* simulation loop running.
C16_SignalLeadsToExit ==
    (sigBuf = 1 \/ stopCalls > 0) ~> (proc # "running")

\* C17: from the moment the goroutine of Start() exists, "soil" is in the
\* Device Registry, so the lookup in Start() finds the device: the only
\* panics are those of a failed New(...), never the type assertion on a
\* missing device.
C17_SoilRegisteredBeforeLookup ==
    /\ startPc # "none" => GetDevice("soil") = "soil"
    /\ proc = "panicked" => failed # "none"

\* C17 witness: mock mode, Start() has looked soil up and launched the
\* emulator with it.
C17_Witness ==
    /\ mock
    /\ startPc = "done"
    /\ emuPc = "select"
    /\ "soil" \in Range(devs)

\* the name New(...) gives each device, under which Add would register it
DeviceName(d) == IF d = "display" THEN "c/lcd" ELSE d

\* C18: once Init() has completed, each of the six devices it constructed is
\* in the Device Registry exactly once, under its own name.
C18_AllDevicesRegistered ==
    mainPc \notin Range(InitPcs) =>
        /\ Range(built) = Range(InitOrder)
        /\ \A d \in Range(built) :
              Cardinality({i \in 1..Len(devs) : devs[i] = DeviceName(d)}) = 1
        /\ Len(devs) = Len(built)

\* C19: no topic has more than one handler, and a message delivered to
\* MsgHandler on one of the topics Start() subscribed it to (soil, env, on,
\* off, pump, display) does not take the unknown-topic branch.
C19_SubscribedTopicsRecognised ==
    /\ \A t \in InTopics : Cardinality({u \in subs : u[1] = t}) <= 1
    /\ (lastMsg # <<>> /\ lastMsg[1] \in StartTopics /\ lastBranch # "none")
          => lastBranch # "unknown"

====
